---- MODULE Spec2Model ----
(***************************************************************************)
(* The XMLA protocol layer of olapy (olapy/core/services/xmla.py): the     *)
(* OPTIONS preflight patch XmlaSoap11.create_in_document and the two       *)
(* service operations XmlaProviderService.Discover and                     *)
(* XmlaProviderService.Execute, over the shared XmlaTools object (session  *)
(* id, executor, cube configuration, active catalogue).                    *)
(*                                                                         *)
(* Text that the code transforms or searches (RequestType, method names,   *)
(* MDX statements) is a sequence of one-character strings; text that is    *)
(* only compared for equality (query string, catalogue names, messages)    *)
(* is a TLA+ string.                                                       *)
(***************************************************************************)
EXTENDS Integers, Sequences, FiniteSets, TLC

VARIABLES
    session_id,    \* xmla_tools.session_id
    cube_config,   \* xmla_tools.executor.cube_config
    catalog,       \* the catalogue the shared executor currently serves
    ctx,           \* per serving thread: the Spyne method context of its call
    headers_sent   \* history: <<operation, SessionId>> of every out header set

vars == <<session_id, cube_config, catalog, ctx, headers_sent>>

----------------------------------------------------------------------------
(* Text constants *)

DISCOVER_DATASOURCES ==
    <<"D","I","S","C","O","V","E","R","_","D","A","T","A","S","O","U","R","C","E","S">>

DISCOVER_PROPERTIES ==
    <<"D","I","S","C","O","V","E","R","_","P","R","O","P","E","R","T","I","E","S">>

DISCOVER_SCHEMA_ROWSETS ==
    <<"D","I","S","C","O","V","E","R","_","S","C","H","E","M","A","_","R","O","W","S","E","T","S">>

DISCOVER_LITERALS ==
    <<"D","I","S","C","O","V","E","R","_","L","I","T","E","R","A","L","S">>

MDSCHEMA_SETS ==
    <<"M","D","S","C","H","E","M","A","_","S","E","T","S">>

MDSCHEMA_KPIS ==
    <<"M","D","S","C","H","E","M","A","_","K","P","I","S">>

DBSCHEMA_CATALOGS ==
    <<"D","B","S","C","H","E","M","A","_","C","A","T","A","L","O","G","S">>

MDSCHEMA_CUBES ==
    <<"M","D","S","C","H","E","M","A","_","C","U","B","E","S">>

DBSCHEMA_TABLES ==
    <<"D","B","S","C","H","E","M","A","_","T","A","B","L","E","S">>

MDSCHEMA_MEASURES ==
    <<"M","D","S","C","H","E","M","A","_","M","E","A","S","U","R","E","S">>

MDSCHEMA_DIMENSIONS ==
    <<"M","D","S","C","H","E","M","A","_","D","I","M","E","N","S","I","O","N","S">>

MDSCHEMA_HIERARCHIES ==
    <<"M","D","S","C","H","E","M","A","_","H","I","E","R","A","R","C","H","I","E","S">>

MDSCHEMA_LEVELS ==
    <<"M","D","S","C","H","E","M","A","_","L","E","V","E","L","S">>

MDSCHEMA_MEASUREGROUPS ==
    <<"M","D","S","C","H","E","M","A","_","M","E","A","S","U","R","E","G","R","O","U","P","S">>

MDSCHEMA_MEASUREGROUP_DIMENSIONS ==
    <<"M","D","S","C","H","E","M","A","_","M","E","A","S","U","R","E","G","R","O","U","P","_","D","I","M","E","N","S","I","O","N","S">>

MDSCHEMA_PROPERTIES ==
    <<"M","D","S","C","H","E","M","A","_","P","R","O","P","E","R","T","I","E","S">>

MDSCHEMA_MEMBERS ==
    <<"M","D","S","C","H","E","M","A","_","M","E","M","B","E","R","S">>

DISCOVER_XML_METADATA ==
    <<"D","I","S","C","O","V","E","R","_","X","M","L","_","M","E","T","A","D","A","T","A">>

ResponseSuffix ==
    <<"_","r","e","s","p","o","n","s","e">>

KeyWithMember ==
    <<"W","I","T","H"," ","M","E","M","B","E","R">>

KeyStrToMember ==
    <<"s","t","r","t","o","m","e","m","b","e","r">>

KeyXlSd0 ==
    <<"[","M","e","a","s","u","r","e","s","]",".","[","X","L","_","S","D","0","]">>

UpperLetters ==
    <<"A","B","C","D","E","F","G","H","I","J","K","L","M","N","O","P","Q","R","S","T","U","V","W","X","Y","Z">>

LowerLetters ==
    <<"a","b","c","d","e","f","g","h","i","j","k","l","m","n","o","p","q","r","s","t","u","v","w","x","y","z">>

----------------------------------------------------------------------------
(* Text operations *)

\* str.lower() on one character
LowerChar(c) ==
    IF \E i \in DOMAIN UpperLetters : UpperLetters[i] = c
    THEN LowerLetters[CHOOSE i \in DOMAIN UpperLetters : UpperLetters[i] = c]
    ELSE c

\* str.lower()
Lower(s) == [i \in DOMAIN s |-> LowerChar(s[i])]

\* key in s : substring test
Contains(s, key) ==
    \E i \in 1..(Len(s) - Len(key) + 1) : SubSeq(s, i, i + Len(key) - 1) = key

\* str(xmla_tools.session_id)
Str(id) == <<"str", id>>

----------------------------------------------------------------------------
(* Bounds and input sets *)

\* statements are built from at most MaxPieces pieces
MaxPieces == 4

Threads == {"t1", "t2"}

SessionIds == {"uuid-a", "uuid-b"}

NoCatalog == "none"

Catalogs == {"sales", "foodmart"}

QueryStrings == {"admin", "x", ""}

Verbs == {"OPTIONS", "POST", "GET"}

RestrictionLists == {"none", "CUBE_NAME=sales"}

\* cube_config is None, or a mapping holding xmla_authentication
CubeConfigs ==
    { [present |-> FALSE, xmla_authentication |-> FALSE],
      [present |-> TRUE,  xmla_authentication |-> FALSE],
      [present |-> TRUE,  xmla_authentication |-> TRUE] }

\* the closed vocabulary of metadata kinds
Vocabulary ==
    { DISCOVER_DATASOURCES, DISCOVER_PROPERTIES, DISCOVER_SCHEMA_ROWSETS,
      DISCOVER_LITERALS, MDSCHEMA_SETS, MDSCHEMA_KPIS, DBSCHEMA_CATALOGS,
      MDSCHEMA_CUBES, DBSCHEMA_TABLES, MDSCHEMA_MEASURES, MDSCHEMA_DIMENSIONS,
      MDSCHEMA_HIERARCHIES, MDSCHEMA_LEVELS, MDSCHEMA_MEASUREGROUPS,
      MDSCHEMA_MEASUREGROUP_DIMENSIONS, MDSCHEMA_PROPERTIES, MDSCHEMA_MEMBERS }

\* RequestType is free text on the wire: values a client can send
RequestTypes ==
    Vocabulary \cup { DISCOVER_XML_METADATA, Lower(MDSCHEMA_CUBES),
                      Lower(DISCOVER_DATASOURCES), <<>> }

WithText == <<"W","I","T","H"," ">>

MemberText == <<"M","E","M","B","E","R">>

FromText == <<" ","F","R","O","M"," ">>

Pieces ==
    { KeyWithMember, KeyStrToMember, KeyXlSd0, WithText, MemberText,
      Lower(KeyWithMember), FromText }

RECURSIVE StatementsOf(_)
StatementsOf(n) ==
    IF n = 0 THEN { <<>> }
    ELSE LET shorter == StatementsOf(n - 1)
         IN  shorter \cup { s \o p : s \in shorter, p \in Pieces }

\* the statements of the formula-detection specification
Statements == StatementsOf(MaxPieces)

\* the statements of the server specifications
ServerStatements ==
    { <<>>, FromText, KeyWithMember \o KeyStrToMember,
      KeyWithMember \o FromText \o KeyStrToMember \o KeyXlSd0 }

DiscoverRequests ==
    [RequestType : RequestTypes, Restrictions : RestrictionLists]

ExecuteRequests(stmts) ==
    [Statement : stmts, Catalog : Catalogs]

----------------------------------------------------------------------------
(* XmlaSoap11.create_in_document *)

IsPreflight_lowercase(verb) == verb = "options"

\* http_verb == "OPTIONS"
IsPreflight(verb) == verb = "OPTIONS"

\* ctx.transport.resp_headers['allow'] = "POST, OPTIONS"
AllowHeader == <<"allow", "POST, OPTIONS">>

\* HTTP_200
HTTP_200 == "200 OK"

\* Fault("") : a Fault whose fault code is the empty string
PreflightFault == [kind |-> "fault", cls |-> "Fault", faultcode |-> "", faultstring |-> "Fault"]

----------------------------------------------------------------------------
(* XmlaProviderService.Discover *)

DiscoverOutHeader_fresh(sid) == [set |-> TRUE, SessionId |-> Str("uuid-new")]

\* Session(SessionId=str(xmla_tools.session_id)) in Discover
DiscoverOutHeader(sid) == [set |-> TRUE, SessionId |-> Str(sid)]

AuthorizationDenied_noAdmin(config, query_string) ==
    config.present /\ config.xmla_authentication

\* config_parser and config_parser['xmla_authentication']
\*     and ctx.transport.req_env['QUERY_STRING'] != 'admin'
AuthorizationDenied(config, query_string) ==
    config.present /\ config.xmla_authentication /\ query_string # "admin"

InvalidCredentialsError ==
    [kind |-> "fault", cls |-> "InvalidCredentialsError",
     faultstring |-> "You do not have permission to access this resource"]

\* request.RequestType.lower() + '_response'
MethodName(RequestType) == Lower(RequestType) \o ResponseSuffix

\* the *_response methods of XmlaTools: one per metadata kind
HandlerNames == { MethodName(v) : v \in Vocabulary }

\* getattr(xmla_tools, method_name) finds an attribute
HasAttr(method_name) == method_name \in HandlerNames

\* discover_datasources_response takes no request; every other handler takes one
HandlerArity(method_name) ==
    IF method_name = MethodName(DISCOVER_DATASOURCES) THEN 0 ELSE 1

\* what a handler returns: a fragment of its own rowset kind for its arguments
HandlerOutput(method_name, args) == [rowset |-> method_name, args |-> args]

CallArgs_alwaysRequest(request) == <<request>>

\* method() for DISCOVER_DATASOURCES, method(request) otherwise
CallArgs(request) ==
    IF request.RequestType = DISCOVER_DATASOURCES THEN <<>> ELSE <<request>>

Return(doc) == [kind |-> "return", doc |-> doc]

Raised_swallowed(cls) == [kind |-> "return", doc |-> <<>>]

\* an exception that leaves the service operation: nothing is returned
Raised(cls) == [kind |-> "exception", cls |-> cls]

----------------------------------------------------------------------------
(* XmlaProviderService.Execute *)

ExecuteOutHeader_fresh(sid) == [set |-> TRUE, SessionId |-> Str("uuid-new")]

\* Session(SessionId=str(xmla_tools.session_id)) in Execute
ExecuteOutHeader(sid) == [set |-> TRUE, SessionId |-> Str(sid)]

\* XmlaTools.change_catalogue(new_catalogue): the catalogue the shared executor
\* serves afterwards
ChangeCatalogue(active, new_catalogue) == new_catalogue

\* request.Command.Statement.encode().decode('utf8') : the statement text
MdxQuery(request) == request.Statement

IsEmptyStatement_never(mdx_query) == FALSE

\* mdx_query == ''
IsEmptyStatement(mdx_query) == mdx_query = <<>>

Open(n) == [t |-> "open", n |-> n]

Close(n) == [t |-> "close", n |-> n]

Elem(n) == [t |-> "elem", n |-> n]

Gen(n) == [t |-> "gen", n |-> n]

\* with xml['return']: xml.root(xmlns="urn:schemas-microsoft-com:xml-analysis:empty")
EmptyDocument ==
    << Open("return"),
       Elem("root xmlns=urn:schemas-microsoft-com:xml-analysis:empty"),
       Close("return") >>

Convert2Formulas_any(mdx_query) ==
    \E key \in {KeyWithMember, KeyStrToMember, KeyXlSd0} : Contains(mdx_query, key)

\* all(key in mdx_query for key in ['WITH MEMBER', 'strtomember', '[Measures].[XL_SD0]'])
Convert2Formulas(mdx_query) ==
    \A key \in {KeyWithMember, KeyStrToMember, KeyXlSd0} : Contains(mdx_query, key)

RenderProgram_cellInfoFirst ==
    << Open("return"),
       Open("root xmlns=urn:schemas-microsoft-com:xml-analysis:mddataset"),
       Elem("execute_xsd"),
       Open("OlapInfo"),
       Gen("generate_cell_info"),
       Open("CubeInfo"),
       Open("Cube"),
       Elem("CubeName"),
       Elem("LastDataUpdate"),
       Elem("LastSchemaUpdate"),
       Close("Cube"),
       Close("CubeInfo"),
       Open("AxesInfo"),
       Gen("generate_axes_info"),
       Gen("generate_axes_info_slicer"),
       Close("AxesInfo"),
       Close("OlapInfo"),
       Open("Axes"),
       Gen("generate_xs0"),
       Gen("generate_slicer_axis"),
       Close("Axes"),
       Open("CellData"),
       Gen("generate_cell_data"),
       Close("CellData"),
       Close("root xmlns=urn:schemas-microsoft-com:xml-analysis:mddataset"),
       Close("return") >>

\* the writes of the non-empty branch, in the order the builder performs them;
\* a "gen" entry is a fragment asked of XmlaExecuteTools
RenderProgram ==
    << Open("return"),
       Open("root xmlns=urn:schemas-microsoft-com:xml-analysis:mddataset"),
       Elem("execute_xsd"),
       Open("OlapInfo"),
       Open("CubeInfo"),
       Open("Cube"),
       Elem("CubeName"),
       Elem("LastDataUpdate"),
       Elem("LastSchemaUpdate"),
       Close("Cube"),
       Close("CubeInfo"),
       Gen("generate_cell_info"),
       Open("AxesInfo"),
       Gen("generate_axes_info"),
       Gen("generate_axes_info_slicer"),
       Close("AxesInfo"),
       Close("OlapInfo"),
       Open("Axes"),
       Gen("generate_xs0"),
       Gen("generate_slicer_axis"),
       Close("Axes"),
       Open("CellData"),
       Gen("generate_cell_data"),
       Close("CellData"),
       Close("root xmlns=urn:schemas-microsoft-com:xml-analysis:mddataset"),
       Close("return") >>

\* the fragment requests still ahead at position pos
GensFrom(pos) ==
    { i \in pos..Len(RenderProgram) : RenderProgram[i].t = "gen" }

\* the last write of the step that starts at pos: the next fragment request,
\* or, after the last one, the end of the document
StepEnd(pos) ==
    LET here == CHOOSE i \in GensFrom(pos) : \A j \in GensFrom(pos) : i <= j
    IN  IF GensFrom(here + 1) = {} THEN Len(RenderProgram) ELSE here

----------------------------------------------------------------------------
(* State *)

\* the method context of a thread that is serving no call
IdleCtx ==
    [ pc            |-> "idle",
      verb          |-> "",
      query_string  |-> "",
      op            |-> "none",
      request       |-> [none |-> TRUE],
      resp_code     |-> "",
      resp_headers  |-> {},
      in_document   |-> FALSE,
      out_header    |-> [set |-> FALSE],
      out           |-> [kind |-> "none"],
      entry_catalog |-> NoCatalog,
      calls         |-> <<>>,
      trace         |-> <<>>,
      seen          |-> {},
      doc           |-> <<>>,
      pos           |-> 0 ]

\* the state after get_wsgi_application: XmlaTools built around the engine
Init ==
    /\ session_id \in SessionIds
    /\ cube_config \in CubeConfigs
    /\ catalog = NoCatalog
    /\ ctx = [t \in Threads |-> IdleCtx]
    /\ headers_sent = {}

----------------------------------------------------------------------------
(* Actions *)

\* the WSGI server hands an HTTP request to the application
Receive(t) ==
    /\ ctx[t].pc = "idle"
    /\ \E verb \in Verbs, qs \in QueryStrings :
         \/ /\ verb = "OPTIONS"
            /\ ctx' = [ctx EXCEPT ![t] =
                 [IdleCtx EXCEPT !.pc = "in", !.verb = verb, !.query_string = qs]]
         \/ /\ verb # "OPTIONS"
            /\ \E r \in DiscoverRequests :
                 ctx' = [ctx EXCEPT ![t] =
                   [IdleCtx EXCEPT !.pc = "in", !.verb = verb, !.query_string = qs,
                                   !.op = "Discover", !.request = r]]
         \/ /\ verb # "OPTIONS"
            /\ \E r \in ExecuteRequests(ServerStatements) :
                 ctx' = [ctx EXCEPT ![t] =
                   [IdleCtx EXCEPT !.pc = "in", !.verb = verb, !.query_string = qs,
                                   !.op = "Execute", !.request = r]]
    /\ UNCHANGED <<session_id, cube_config, catalog, headers_sent>>

\* XmlaSoap11.create_in_document
CreateInDocument(t) ==
    /\ ctx[t].pc = "in"
    /\ \/ /\ IsPreflight(ctx[t].verb)
          /\ ctx' = [ctx EXCEPT ![t].resp_headers = @ \cup {AllowHeader},
                                ![t].resp_code = HTTP_200,
                                ![t].out = PreflightFault,
                                ![t].pc = "done"]
       \/ /\ ~IsPreflight(ctx[t].verb)
          \* Soap11.create_in_document parses the envelope
          /\ ctx' = [ctx EXCEPT ![t].in_document = TRUE, ![t].pc = "parsed"]
       \/ /\ ~IsPreflight(ctx[t].verb)
          \* Soap11.create_in_document rejects the request
          /\ ctx' = [ctx EXCEPT ![t].in_document = TRUE,
                                ![t].out = [kind |-> "fault", cls |-> "Soap11"],
                                ![t].pc = "done"]
    /\ UNCHANGED <<session_id, cube_config, catalog, headers_sent>>

Discover_headerAfterGate(t) ==
    LET c           == ctx[t]
        request     == c.request
        denied      == AuthorizationDenied(cube_config, c.query_string)
        header      == IF denied THEN c.out_header
                       ELSE DiscoverOutHeader(session_id)
        method_name == MethodName(request.RequestType)
        args        == CallArgs(request)
        call        == [method |-> method_name, args |-> args]
        result      ==
            IF denied
            THEN [out |-> InvalidCredentialsError, calls |-> <<>>]
            ELSE IF ~HasAttr(method_name)
            THEN [out |-> Raised("AttributeError"), calls |-> <<>>]
            ELSE IF Len(args) # HandlerArity(method_name)
            THEN [out |-> Raised("TypeError"), calls |-> <<call>>]
            ELSE [out |-> Return(HandlerOutput(method_name, args)), calls |-> <<call>>]
    IN  /\ c.pc = "parsed"
        /\ c.op = "Discover"
        /\ ctx' = [ctx EXCEPT ![t].out_header = header,
                              ![t].entry_catalog = catalog,
                              ![t].out = result.out,
                              ![t].calls = result.calls,
                              ![t].pc = "done"]
        /\ headers_sent' = IF denied THEN headers_sent
                           ELSE headers_sent \cup {<<"Discover", header.SessionId>>}
        /\ UNCHANGED <<session_id, cube_config, catalog>>

Discover_dispatchFirst(t) ==
    LET c           == ctx[t]
        request     == c.request
        header      == DiscoverOutHeader(session_id)
        method_name == MethodName(request.RequestType)
        args        == CallArgs(request)
        call        == [method |-> method_name, args |-> args]
        denied      == AuthorizationDenied(cube_config, c.query_string)
        result      ==
            IF ~HasAttr(method_name)
            THEN [out |-> Raised("AttributeError"), calls |-> <<>>]
            ELSE IF Len(args) # HandlerArity(method_name)
            THEN [out |-> Raised("TypeError"), calls |-> <<call>>]
            ELSE IF denied
            THEN [out |-> InvalidCredentialsError, calls |-> <<call>>]
            ELSE [out |-> Return(HandlerOutput(method_name, args)), calls |-> <<call>>]
    IN  /\ c.pc = "parsed"
        /\ c.op = "Discover"
        /\ ctx' = [ctx EXCEPT ![t].out_header = header,
                              ![t].entry_catalog = catalog,
                              ![t].out = result.out,
                              ![t].calls = result.calls,
                              ![t].pc = "done"]
        /\ headers_sent' = headers_sent \cup {<<"Discover", header.SessionId>>}
        /\ UNCHANGED <<session_id, cube_config, catalog>>

\* XmlaProviderService.Discover
Discover(t) ==
    LET c           == ctx[t]
        request     == c.request
        header      == DiscoverOutHeader(session_id)
        method_name == MethodName(request.RequestType)
        args        == CallArgs(request)
        call        == [method |-> method_name, args |-> args]
        result      ==
            IF AuthorizationDenied(cube_config, c.query_string)
            THEN [out |-> InvalidCredentialsError, calls |-> <<>>]
            ELSE IF ~HasAttr(method_name)
            THEN [out |-> Raised("AttributeError"), calls |-> <<>>]
            ELSE IF Len(args) # HandlerArity(method_name)
            THEN [out |-> Raised("TypeError"), calls |-> <<call>>]
            ELSE [out |-> Return(HandlerOutput(method_name, args)), calls |-> <<call>>]
    IN  /\ c.pc = "parsed"
        /\ c.op = "Discover"
        /\ ctx' = [ctx EXCEPT ![t].out_header = header,
                              ![t].entry_catalog = catalog,
                              ![t].out = result.out,
                              ![t].calls = result.calls,
                              ![t].pc = "done"]
        /\ headers_sent' = headers_sent \cup {<<"Discover", header.SessionId>>}
        /\ UNCHANGED <<session_id, cube_config, catalog>>

ExecuteBegin_gated(t) ==
    LET c         == ctx[t]
        header    == ExecuteOutHeader(session_id)
        mdx_query == MdxQuery(c.request)
        switch    == [ev |-> "change_catalogue", arg |-> c.request.Catalog]
        denied    == AuthorizationDenied(cube_config, c.query_string)
    IN  /\ c.pc = "parsed"
        /\ c.op = "Execute"
        /\ headers_sent' = headers_sent \cup {<<"Execute", header.SessionId>>}
        /\ \/ /\ denied
              /\ ctx' = [ctx EXCEPT ![t].out_header = header,
                                    ![t].entry_catalog = catalog,
                                    ![t].out = InvalidCredentialsError,
                                    ![t].pc = "done"]
              /\ UNCHANGED catalog
           \/ /\ ~denied
              /\ IsEmptyStatement(mdx_query)
              /\ ctx' = [ctx EXCEPT ![t].out_header = header,
                                    ![t].entry_catalog = catalog,
                                    ![t].doc = EmptyDocument,
                                    ![t].out = Return(EmptyDocument),
                                    ![t].pc = "done"]
              /\ UNCHANGED catalog
           \/ /\ ~denied
              /\ ~IsEmptyStatement(mdx_query)
              /\ catalog' = ChangeCatalogue(catalog, c.request.Catalog)
              /\ ctx' = [ctx EXCEPT ![t].out_header = header,
                                    ![t].entry_catalog = catalog,
                                    ![t].trace = Append(@, switch),
                                    ![t].pc = "switched"]
        /\ UNCHANGED <<session_id, cube_config>>

ExecuteBegin_queryFirst(t) ==
    LET c         == ctx[t]
        header    == ExecuteOutHeader(session_id)
        mdx_query == MdxQuery(c.request)
        switch    == [ev |-> "change_catalogue", arg |-> c.request.Catalog]
        execute   == [ev |-> "execute", mdx_query |-> mdx_query,
                      convert2formulas |-> Convert2Formulas(mdx_query)]
    IN  /\ c.pc = "parsed"
        /\ c.op = "Execute"
        /\ headers_sent' = headers_sent \cup {<<"Execute", header.SessionId>>}
        /\ \/ /\ IsEmptyStatement(mdx_query)
              /\ ctx' = [ctx EXCEPT ![t].out_header = header,
                                    ![t].entry_catalog = catalog,
                                    ![t].doc = EmptyDocument,
                                    ![t].out = Return(EmptyDocument),
                                    ![t].pc = "done"]
              /\ UNCHANGED catalog
           \/ /\ ~IsEmptyStatement(mdx_query)
              /\ catalog' = ChangeCatalogue(catalog, c.request.Catalog)
              /\ ctx' = [ctx EXCEPT ![t].out_header = header,
                                    ![t].entry_catalog = catalog,
                                    ![t].trace = <<execute, switch>>,
                                    ![t].seen = @ \cup {catalog},
                                    ![t].pos = 1,
                                    ![t].pc = "render"]
        /\ UNCHANGED <<session_id, cube_config>>

\* XmlaProviderService.Execute up to the catalogue switch
ExecuteBegin(t) ==
    LET c         == ctx[t]
        header    == ExecuteOutHeader(session_id)
        mdx_query == MdxQuery(c.request)
        switch    == [ev |-> "change_catalogue", arg |-> c.request.Catalog]
    IN  /\ c.pc = "parsed"
        /\ c.op = "Execute"
        /\ headers_sent' = headers_sent \cup {<<"Execute", header.SessionId>>}
        /\ \/ /\ IsEmptyStatement(mdx_query)
              /\ ctx' = [ctx EXCEPT ![t].out_header = header,
                                    ![t].entry_catalog = catalog,
                                    ![t].doc = EmptyDocument,
                                    ![t].out = Return(EmptyDocument),
                                    ![t].pc = "done"]
              /\ UNCHANGED catalog
           \/ /\ ~IsEmptyStatement(mdx_query)
              \* xmla_tools.change_catalogue(Catalog) returns
              /\ catalog' = ChangeCatalogue(catalog, c.request.Catalog)
              /\ ctx' = [ctx EXCEPT ![t].out_header = header,
                                    ![t].entry_catalog = catalog,
                                    ![t].trace = Append(@, switch),
                                    ![t].pc = "switched"]
           \/ /\ ~IsEmptyStatement(mdx_query)
              \* xmla_tools.change_catalogue(Catalog) raises
              /\ ctx' = [ctx EXCEPT ![t].out_header = header,
                                    ![t].entry_catalog = catalog,
                                    ![t].trace = Append(@, switch),
                                    ![t].out = Raised("QueryExecutionFailure"),
                                    ![t].pc = "done"]
              /\ UNCHANGED catalog
        /\ UNCHANGED <<session_id, cube_config>>

ExecuteQuery_retry(t) ==
    LET c                == ctx[t]
        mdx_query        == MdxQuery(c.request)
        convert2formulas == Convert2Formulas(mdx_query)
        execute          == [ev |-> "execute", mdx_query |-> mdx_query,
                             convert2formulas |-> convert2formulas]
    IN  /\ c.pc = "switched"
        /\ \/ ctx' = [ctx EXCEPT ![t].trace = Append(@, execute),
                                 ![t].seen = @ \cup {catalog},
                                 ![t].pos = 1,
                                 ![t].pc = "render"]
           \/ ctx' = [ctx EXCEPT ![t].trace = Append(@, execute),
                                 ![t].seen = @ \cup {catalog}]
        /\ UNCHANGED <<session_id, cube_config, catalog, headers_sent>>

ExecuteQuery_rollback(t) ==
    LET c                == ctx[t]
        mdx_query        == MdxQuery(c.request)
        convert2formulas == Convert2Formulas(mdx_query)
        execute          == [ev |-> "execute", mdx_query |-> mdx_query,
                             convert2formulas |-> convert2formulas]
    IN  /\ c.pc = "switched"
        /\ \/ /\ ctx' = [ctx EXCEPT ![t].trace = Append(@, execute),
                                    ![t].seen = @ \cup {catalog},
                                    ![t].pos = 1,
                                    ![t].pc = "render"]
              /\ UNCHANGED catalog
           \/ /\ ctx' = [ctx EXCEPT ![t].trace = Append(@, execute),
                                    ![t].seen = @ \cup {catalog},
                                    ![t].out = Raised("QueryExecutionFailure"),
                                    ![t].pc = "done"]
              /\ catalog' = c.entry_catalog
        /\ UNCHANGED <<session_id, cube_config, headers_sent>>

\* XmlaProviderService.Execute: the formula decision and XmlaExecuteTools(...)
ExecuteQuery(t) ==
    LET c                == ctx[t]
        mdx_query        == MdxQuery(c.request)
        convert2formulas == Convert2Formulas(mdx_query)
        execute          == [ev |-> "execute", mdx_query |-> mdx_query,
                             convert2formulas |-> convert2formulas]
    IN  /\ c.pc = "switched"
        /\ \/ ctx' = [ctx EXCEPT ![t].trace = Append(@, execute),
                                 ![t].seen = @ \cup {catalog},
                                 ![t].pos = 1,
                                 ![t].pc = "render"]
           \/ ctx' = [ctx EXCEPT ![t].trace = Append(@, execute),
                                 ![t].seen = @ \cup {catalog},
                                 ![t].out = Raised("QueryExecutionFailure"),
                                 ![t].pc = "done"]
        /\ UNCHANGED <<session_id, cube_config, catalog, headers_sent>>

\* XmlaProviderService.Execute: the builder's writes up to and including the
\* next fragment taken from XmlaExecuteTools (after the last one, up to the
\* end of the document and the return)
ExecuteRender(t) ==
    LET c        == ctx[t]
        last     == StepEnd(c.pos)
        fragment == CHOOSE i \in GensFrom(c.pos) : \A j \in GensFrom(c.pos) : i <= j
        written  == c.doc \o SubSeq(RenderProgram, c.pos, last)
        gen      == [ev |-> "fragment", producer |-> RenderProgram[fragment].n]
    IN  /\ c.pc = "render"
        /\ \/ /\ last < Len(RenderProgram)
              /\ ctx' = [ctx EXCEPT ![t].trace = Append(@, gen),
                                    ![t].seen = @ \cup {catalog},
                                    ![t].doc = written,
                                    ![t].pos = last + 1]
           \/ /\ last = Len(RenderProgram)
              /\ ctx' = [ctx EXCEPT ![t].trace = Append(@, gen),
                                    ![t].seen = @ \cup {catalog},
                                    ![t].doc = written,
                                    ![t].out = Return(written),
                                    ![t].pc = "done"]
           \/ ctx' = [ctx EXCEPT ![t].trace = Append(@, gen),
                                 ![t].seen = @ \cup {catalog},
                                 ![t].out = Raised("QueryExecutionFailure"),
                                 ![t].pc = "done"]
        /\ UNCHANGED <<session_id, cube_config, catalog, headers_sent>>

\* the response leaves; the thread is free for the next request
Respond(t) ==
    /\ ctx[t].pc = "done"
    /\ ctx' = [ctx EXCEPT ![t] = IdleCtx]
    /\ UNCHANGED <<session_id, cube_config, catalog, headers_sent>>

\* a POST whose envelope parsed to an Execute request reaches a free thread
AcceptExecute(t) ==
    /\ ctx[t].pc = "idle"
    /\ \E r \in ExecuteRequests(ServerStatements) :
         ctx' = [ctx EXCEPT ![t] =
           [IdleCtx EXCEPT !.pc = "parsed", !.verb = "POST", !.in_document = TRUE,
                           !.op = "Execute", !.request = r]]
    /\ UNCHANGED <<session_id, cube_config, catalog, headers_sent>>

----------------------------------------------------------------------------
(* Specifications *)

\* the server handling one call at a time (wsgiref's make_server)
Next ==
    \/ Receive("t1")
    \/ CreateInDocument("t1")
    \/ Discover("t1")
    \/ ExecuteBegin("t1")
    \/ ExecuteQuery("t1")
    \/ ExecuteRender("t1")
    \/ Respond("t1")

Spec == Init /\ [][Next]_vars

\* the application served by threads that share one XmlaTools
InitConc ==
    /\ session_id = "uuid-a"
    /\ cube_config = [present |-> FALSE, xmla_authentication |-> FALSE]
    /\ catalog = NoCatalog
    /\ ctx = [t \in Threads |-> IdleCtx]
    /\ headers_sent = {}

NextConc ==
    \E t \in Threads :
        \/ AcceptExecute(t)
        \/ ExecuteBegin(t)
        \/ ExecuteQuery(t)
        \/ ExecuteRender(t)
        \/ Respond(t)

SpecConc == InitConc /\ [][NextConc]_vars

\* the formula decision over many statements
InitFormulas ==
    /\ session_id = "uuid-a"
    /\ cube_config = [present |-> FALSE, xmla_authentication |-> FALSE]
    /\ catalog = NoCatalog
    /\ headers_sent = {}
    /\ \E s \in Statements :
         ctx = [t \in Threads |->
                  IF t = "t1"
                  THEN [IdleCtx EXCEPT !.pc = "parsed", !.verb = "POST",
                                       !.in_document = TRUE, !.op = "Execute",
                                       !.request = [Statement |-> s, Catalog |-> "sales"]]
                  ELSE IdleCtx]

NextFormulas ==
    \/ ExecuteBegin("t1")
    \/ ExecuteQuery("t1")

SpecFormulas == InitFormulas /\ [][NextFormulas]_vars

----------------------------------------------------------------------------
(* Properties *)

\* the threads whose call has ended
Served == { t \in Threads : ctx[t].pc = "done" }

\* the threads whose call has ended after its service operation ran
Handled == { t \in Served : ctx[t].out_header.set }

\* a and b both occur in doc, a before b
Before(doc, a, b) ==
    \E i, j \in DOMAIN doc : i < j /\ doc[i] = a /\ doc[j] = b

\* the entries of chain occur in doc in the order of chain
InOrder(doc, chain) ==
    \A k \in 1..(Len(chain) - 1) : Before(doc, chain[k], chain[k + 1])

\* C1: an Execute call with a non-empty statement sees, at the query and at
\* every fragment, no catalogue other than the Catalog of its own request,
\* whatever the other thread does meanwhile.
NoCatalogBleed ==
    \A t \in Threads :
        ctx[t].op = "Execute" => ctx[t].seen \subseteq {ctx[t].request.Catalog}

\* C2: a finished Discover call ended in the InvalidCredentials fault with the
\* permission message exactly when the cube configuration is present, its
\* xmla_authentication flag is true and the query string is not "admin".
AuthorizationGate ==
    \A t \in Handled :
        ctx[t].op = "Discover" =>
            ( ctx[t].out = [kind |-> "fault", cls |-> "InvalidCredentialsError",
                            faultstring |->
                              "You do not have permission to access this resource"]
              <=> ( /\ cube_config.present
                    /\ cube_config.xmla_authentication
                    /\ ctx[t].query_string # "admin" ) )

\* C2 witness: authentication is on, the query string is "x", the call is denied
AuthorizationGateWitness ==
    \E t \in Handled :
        /\ ctx[t].op = "Discover"
        /\ cube_config.present /\ cube_config.xmla_authentication
        /\ ctx[t].query_string = "x"
        /\ ctx[t].out.kind = "fault"

\* C3: a finished Execute call with the empty statement returned exactly the
\* empty-result document, left the active catalogue as it found it and made
\* no call to the query executor (no catalogue switch, no execution).
EmptyStatementExecute ==
    \A t \in Handled :
        (ctx[t].op = "Execute" /\ ctx[t].request.Statement = <<>>) =>
            /\ ctx[t].out =
                 [kind |-> "return",
                  doc  |-> << [t |-> "open", n |-> "return"],
                              [t |-> "elem",
                               n |-> "root xmlns=urn:schemas-microsoft-com:xml-analysis:empty"],
                              [t |-> "close", n |-> "return"] >>]
            /\ catalog = ctx[t].entry_catalog
            /\ ctx[t].trace = <<>>
            /\ ctx[t].seen = {}

\* C3 witness: an empty-statement call that names another catalogue than the
\* active one has finished
EmptyStatementExecuteWitness ==
    \E t \in Handled :
        /\ ctx[t].op = "Execute" /\ ctx[t].request.Statement = <<>>
        /\ catalog \in Catalogs
        /\ ctx[t].request.Catalog # catalog

\* C4: a finished, authorized Discover call whose RequestType is outside the
\* vocabulary did not return a response and invoked no metadata handler.
UnknownRequestTypeFaults ==
    \A t \in Handled :
        ( /\ ctx[t].op = "Discover"
          /\ ctx[t].request.RequestType \notin Vocabulary
          /\ ctx[t].out # InvalidCredentialsError ) =>
            /\ ctx[t].out.kind # "return"
            /\ ctx[t].calls = <<>>

SessionIdStable ==
    /\ \A h \in headers_sent : h[2] = <<"str", session_id>>
    /\ \A g, h \in headers_sent : g[2] = h[2]
    /\ \A t \in Threads :
          ctx[t].out_header.set => ctx[t].out_header.SessionId = <<"str", session_id>>

\* C6 witness: a Discover call and an Execute call have both set their header
SessionIdStableWitness ==
    \E g, h \in headers_sent : g[1] = "Discover" /\ h[1] = "Execute"

RemoveFirst(s, key) ==
    LET i == CHOOSE j \in 1..(Len(s) - Len(key) + 1) :
                 /\ SubSeq(s, j, j + Len(key) - 1) = key
                 /\ \A h \in 1..(j - 1) : SubSeq(s, h, h + Len(key) - 1) # key
    IN  SubSeq(s, 1, i - 1) \o SubSeq(s, i + Len(key), Len(s))

\* s with key cut out until it no longer occurs
RECURSIVE RemoveAll(_, _)
RemoveAll(s, key) ==
    IF Contains(s, key) THEN RemoveAll(RemoveFirst(s, key), key) ELSE s

\* the calls of the query executor recorded in a trace
ExecuteEvents(trace) == { i \in DOMAIN trace : trace[i].ev = "execute" }

\* C8: the flag handed to the query executor is true exactly when the statement
\* contains "WITH MEMBER", "strtomember" and "[Measures].[XL_SD0]"; and when it
\* is true, the statement with any one of the three cut out gets false.
FormulaFlag ==
    \A t \in Threads : \A i \in ExecuteEvents(ctx[t].trace) :
        LET s == ctx[t].trace[i].mdx_query
            f == ctx[t].trace[i].convert2formulas
        IN  /\ f <=> ( /\ Contains(s, KeyWithMember)
                       /\ Contains(s, KeyStrToMember)
                       /\ Contains(s, KeyXlSd0) )
            /\ f => \A key \in {KeyWithMember, KeyStrToMember, KeyXlSd0} :
                        ~Convert2Formulas(RemoveAll(s, key))

\* C8 witness: the executor was called with the flag true for a statement
\* whose "WITH MEMBER" is not one of its pieces but spans two of them
FormulaFlagWitness ==
    \E t \in Threads : \E i \in ExecuteEvents(ctx[t].trace) :
        /\ ctx[t].trace[i].convert2formulas
        /\ ctx[t].trace[i].mdx_query =
              KeyStrToMember \o WithText \o MemberText \o KeyXlSd0

\* C9: a finished, authorized Discover call for a RequestType of the vocabulary
\* made exactly one handler call, to the handler named after the type, with no
\* argument for DISCOVER_DATASOURCES and with the request otherwise, and
\* returned what that handler gave.
DispatchByRequestType ==
    \A t \in Handled :
        ( /\ ctx[t].op = "Discover"
          /\ ctx[t].request.RequestType \in Vocabulary
          /\ ~( /\ cube_config.present
                /\ cube_config.xmla_authentication
                /\ ctx[t].query_string # "admin" ) ) =>
            LET r    == ctx[t].request
                name == Lower(r.RequestType) \o ResponseSuffix
                args == IF r.RequestType = DISCOVER_DATASOURCES THEN <<>> ELSE <<r>>
            IN  /\ ctx[t].calls = << [method |-> name, args |-> args] >>
                /\ ctx[t].out = [kind |-> "return",
                                 doc  |-> [rowset |-> name, args |-> args]]
                /\ (args = <<>>) <=> (r.RequestType = DISCOVER_DATASOURCES)

\* C9 witness: a handler that takes the request has been called with it
DispatchByRequestTypeWitness ==
    \E t \in Handled :
        /\ ctx[t].op = "Discover"
        /\ ctx[t].request.RequestType = MDSCHEMA_CUBES
        /\ ctx[t].calls # <<>>
        /\ ctx[t].calls[1].args = <<ctx[t].request>>

\* C10: handling an OPTIONS request raises no fault.
PreflightRaisesNoFault ==
    \A t \in Threads :
        ctx[t].verb = "OPTIONS" => ctx[t].out.kind \notin {"fault", "exception"}

\* the events of a non-empty Execute call that ran to its end: the catalogue
\* switch, the query, and one per fragment
CompleteTrace == 2 + Cardinality(GensFrom(1))

\* C11: a non-empty Execute call returns a document only at its end, and then
\* the whole document after every executor call succeeded; a call in which the
\* executor failed (at the switch, at the query or at a fragment) ends with
\* the failure raised and returns nothing, whatever was already written.
FailureReturnsNoDocument ==
    \A t \in Threads :
        (ctx[t].op = "Execute" /\ ctx[t].request.Statement # <<>>) =>
            /\ ctx[t].out.kind = "return" =>
                  /\ ctx[t].pc = "done"
                  /\ ctx[t].out.doc = RenderProgram
                  /\ Len(ctx[t].trace) = CompleteTrace
            /\ (ctx[t].pc = "done" /\ ctx[t].out_header.set
                  /\ ctx[t].out.kind # "return") =>
                  ctx[t].out = [kind |-> "exception", cls |-> "QueryExecutionFailure"]
            /\ (ctx[t].pc = "done" /\ ctx[t].out_header.set
                  /\ Len(ctx[t].trace) < CompleteTrace) =>
                  ctx[t].out.kind = "exception"

\* C11 witness: the executor failed at a fragment after part of the document
\* was written
FailureReturnsNoDocumentWitness ==
    \E t \in Handled :
        /\ ctx[t].op = "Execute"
        /\ ctx[t].out.kind = "exception"
        /\ ctx[t].doc # <<>>
        /\ Len(ctx[t].trace) < CompleteTrace

\* C12: the authorization check is part of every Discover call and of no
\* Execute call: a Discover call that meets the gate's condition is denied,
\* and no Execute call ends in InvalidCredentials, whatever the configuration
\* and the query string are.
ExecuteNotGated ==
    /\ \A t \in Threads :
          ctx[t].op = "Execute" =>
              /\ ctx[t].out # [kind |-> "fault", cls |-> "InvalidCredentialsError",
                               faultstring |->
                                 "You do not have permission to access this resource"]
              /\ ctx[t].out.kind \in {"fault", "exception"} =>
                    ctx[t].out.cls # "InvalidCredentialsError"
    /\ \A t \in Handled :
          ( /\ ctx[t].op = "Discover"
            /\ cube_config.present /\ cube_config.xmla_authentication
            /\ ctx[t].query_string # "admin" ) =>
              ctx[t].out.kind = "fault" /\ ctx[t].out.cls = "InvalidCredentialsError"

\* C12 witness: with authentication on and the query string "x", a non-empty
\* Execute call returned its document
ExecuteNotGatedWitness ==
    \E t \in Handled :
        /\ ctx[t].op = "Execute" /\ ctx[t].request.Statement # <<>>
        /\ cube_config.present /\ cube_config.xmla_authentication
        /\ ctx[t].query_string = "x"
        /\ ctx[t].out.kind = "return"

\* the call of thread t has entered its service operation
Entered(t) ==
    /\ ctx[t].op \in {"Discover", "Execute"}
    /\ \/ ctx[t].pc \in {"switched", "render"}
       \/ /\ ctx[t].pc = "done"
          /\ ctx[t].in_document
          /\ ctx[t].out # [kind |-> "fault", cls |-> "Soap11"]

\* C13: once a Discover or Execute call has entered its operation, its out
\* header is set to the session id, on every path: when Discover is denied,
\* when the statement is empty, when a handler or the executor has been called
\* or has failed.
SessionHeaderOnEveryPath ==
    \A t \in Threads :
        Entered(t) =>
            ctx[t].out_header = [set |-> TRUE, SessionId |-> <<"str", session_id>>]

\* C13 witness: a denied Discover call carries the header
SessionHeaderOnEveryPathWitness ==
    \E t \in Served :
        /\ ctx[t].op = "Discover"
        /\ ctx[t].out.kind = "fault" /\ ctx[t].out.cls = "InvalidCredentialsError"
        /\ ctx[t].out_header.set

\* C15: a Discover call denied by the gate called no handler and no executor
\* operation, wrote no document and left the active catalogue as it found it;
\* the session header is all it set.
DeniedDiscoverHasNoEffect ==
    \A t \in Served :
        ( /\ ctx[t].op = "Discover"
          /\ ctx[t].out.kind = "fault"
          /\ ctx[t].out.cls = "InvalidCredentialsError" ) =>
            /\ ctx[t].calls = <<>>
            /\ ctx[t].trace = <<>>
            /\ ctx[t].seen = {}
            /\ ctx[t].doc = <<>>
            /\ catalog = ctx[t].entry_catalog
            /\ ctx[t].resp_code = "" /\ ctx[t].resp_headers = {}

\* C15 witness: a Discover call for a type that has a handler was denied while
\* a catalogue was active
DeniedDiscoverHasNoEffectWitness ==
    \E t \in Served :
        /\ ctx[t].op = "Discover"
        /\ ctx[t].request.RequestType \in Vocabulary
        /\ ctx[t].out.kind = "fault" /\ ctx[t].out.cls = "InvalidCredentialsError"
        /\ catalog \in Catalogs

\* the fragment producers in the order Execute asks for them
ProducerOrder ==
    << "generate_cell_info", "generate_axes_info", "generate_axes_info_slicer",
       "generate_xs0", "generate_slicer_axis", "generate_cell_data" >>

\* C14: what an Execute call has done so far is always a beginning of: switch
\* the catalogue to the request's Catalog, call the executor with the
\* statement and the flag decided from it, then ask for the fragments one by
\* one; nothing is written before the executor was called, and the executor
\* is never called before the switch.
ExecuteStepOrder ==
    \A t \in Threads :
        ctx[t].op = "Execute" =>
            LET tr == ctx[t].trace
                s  == ctx[t].request.Statement
            IN  /\ Len(tr) <= 2 + Len(ProducerOrder)
                /\ Len(tr) >= 1 =>
                      tr[1] = [ev |-> "change_catalogue", arg |-> ctx[t].request.Catalog]
                /\ Len(tr) >= 2 =>
                      tr[2] = [ev |-> "execute", mdx_query |-> s,
                               convert2formulas |->
                                  ( /\ Contains(s, KeyWithMember)
                                    /\ Contains(s, KeyStrToMember)
                                    /\ Contains(s, KeyXlSd0) )]
                /\ \A i \in 3..Len(tr) :
                      tr[i] = [ev |-> "fragment", producer |-> ProducerOrder[i - 2]]
                /\ (ctx[t].doc # <<>> /\ s # <<>>) => Len(tr) >= 3

\* C14 witness: a non-empty call went through all its steps
ExecuteStepOrderWitness ==
    \E t \in Threads :
        /\ ctx[t].op = "Execute"
        /\ Len(ctx[t].trace) = 2 + Len(ProducerOrder)
        /\ ctx[t].out.kind = "return"

\* the catalogue switches recorded in a trace
SwitchEvents(trace) == { i \in DOMAIN trace : trace[i].ev = "change_catalogue" }

\* C16: within one Execute call the catalogue is switched at most once and the
\* executor is called at most once, also when the call ended in a failure.
NoRetry ==
    \A t \in Threads :
        ctx[t].op = "Execute" =>
            /\ Cardinality(SwitchEvents(ctx[t].trace)) <= 1
            /\ Cardinality(ExecuteEvents(ctx[t].trace)) <= 1

\* C16 witness: a call whose executor call failed has ended, with one switch
\* and one executor call behind it
NoRetryWitness ==
    \E t \in Served :
        /\ ctx[t].op = "Execute"
        /\ ctx[t].out.kind = "exception"
        /\ Len(ctx[t].trace) = 2
        /\ Cardinality(SwitchEvents(ctx[t].trace)) = 1
        /\ Cardinality(ExecuteEvents(ctx[t].trace)) = 1

\* the call of thread t is past a catalogue switch that succeeded
Switched(t) ==
    /\ ctx[t].op = "Execute"
    /\ \/ ctx[t].pc \in {"switched", "render"}
       \/ ctx[t].pc = "done" /\ Len(ctx[t].trace) >= 2

\* a step that changes the active catalogue is the switch of a non-empty
\* Execute call, and sets it to that call's Catalog
OnlySwitchChangesCatalog ==
    catalog' # catalog =>
        \E t \in Threads :
            /\ ctx[t].pc = "parsed" /\ ctx[t].op = "Execute"
            /\ ctx[t].request.Statement # <<>>
            /\ ctx'[t].pc = "switched"
            /\ catalog' = ctx[t].request.Catalog

\* C17: with one call at a time, from the switch of a non-empty Execute call
\* on, through its end (also when the executor failed after the switch), the
\* active catalogue is that call's Catalog; and no other step changes it: not
\* the end of a call, not an empty-statement Execute, not a Discover, so it
\* stays until the next non-empty Execute call switches.
CatalogSwitchSticks ==
    /\ [](\A t \in Threads : Switched(t) => catalog = ctx[t].request.Catalog)
    /\ [][OnlySwitchChangesCatalog]_vars

\* C17 witness: the executor failed after a switch that changed the catalogue,
\* and the catalogue is still the one the call switched to
CatalogSwitchSticksWitness ==
    \E t \in Served :
        /\ Switched(t)
        /\ ctx[t].out.kind = "exception"
        /\ ctx[t].entry_catalog \in Catalogs
        /\ ctx[t].entry_catalog # ctx[t].request.Catalog
        /\ catalog = ctx[t].request.Catalog

====
